---- MODULE Spec2Model ----
(***************************************************************************)
(* kmp_process_sys.h: the cinterop header of kmp-process that declares      *)
(* `int __SYS_pipe2();` for Android behind an include guard                 *)
(* (KMP_PROCESS_SYS_H) and a platform guard (__ANDROID__).                  *)
(*                                                                         *)
(* The header has no runtime behaviour: what it does, it does to the       *)
(* build of a translation unit that includes it.  The model is that build: *)
(* the translation unit is read line by line (preprocessing and            *)
(* declaration scope are both positional), then compiled, then linked      *)
(* against the platform runtime.                                           *)
(***************************************************************************)
EXTENDS Naturals, Sequences, FiniteSets

\* Longest translation unit explored, in lines.
MaxLines == 4

\* The two macros the header reads or writes, and the one name it declares.
GuardMacro == "KMP_PROCESS_SYS_H"
PlatformMacro == "__ANDROID__"
Symbol == "__SYS_pipe2"

\* Build targets.  Only the Android toolchain predefines __ANDROID__.
Platforms == {"android", "linux", "apple"}
Predefined(p) == IF p = "android" THEN {PlatformMacro} ELSE {}

\* The lines a translation unit is made of:
\*   include       #include "kmp_process_sys.h"
\*   define        #define __ANDROID__
\*   undef         #undef __ANDROID__
\*   call          __SYS_pipe2();
\*   guarded_call  #ifdef __ANDROID__ / __SYS_pipe2(); / #endif
LineKinds == {"include", "define", "undef", "call", "guarded_call"}
TranslationUnits == UNION {[1..n -> LineKinds] : n \in 0..MaxLines}

VARIABLES
    platform,        \* the build target
    runtimeExports,  \* does the platform runtime export __SYS_pipe2
    tu,              \* the translation unit being built
    pc,              \* the next line of tu to be read
    macros,          \* macros defined at pc
    decls,           \* declarations seen so far, in order
    undefinedSyms,   \* external symbols the object file refers to
    diagnostics,     \* compile errors raised so far
    phase,           \* translating, compiled, compile_failed, linked, link_failed
    error            \* the failure the build ended with, or "none"

vars == <<platform, runtimeExports, tu, pc, macros, decls, undefinedSyms,
          diagnostics, phase, error>>

----------------------------------------------------------------------------
\* The header, line by line.

\* Variant without the include guard: the body is read on every inclusion.
HeaderGuardOpen_NoGuard(m) == TRUE
\* #ifndef KMP_PROCESS_SYS_H
HeaderGuardOpen(m) == GuardMacro \notin m

\* Variant without the platform guard: the declaration is unconditional.
PlatformGuardOpen_NoGuard(m) == TRUE
\* Variant with the guard inverted (#ifndef for #ifdef).
PlatformGuardOpen_Inverted(m) == PlatformMacro \notin m
\* #ifdef __ANDROID__
PlatformGuardOpen(m) == PlatformMacro \in m

\* Variant that undefines the platform macro once it has read it.
IncludeMacros_UndefPlatform(m) ==
    IF HeaderGuardOpen(m) THEN (m \cup {GuardMacro}) \ {PlatformMacro} ELSE m
\* #define KMP_PROCESS_SYS_H, inside the include guard.
IncludeMacros(m) == IF HeaderGuardOpen(m) THEN m \cup {GuardMacro} ELSE m

\* int __SYS_pipe2();  inside both guards.
IncludeDecls(m, d) ==
    IF HeaderGuardOpen(m) /\ PlatformGuardOpen(m) THEN Append(d, Symbol) ELSE d

\* Variant in which the header holds a use of the primitive (an inline wrapper
\* outside the platform guard), not only its declaration.
IncludeRefs_UsesSymbol(m, syms) ==
    IF HeaderGuardOpen(m) THEN syms \cup {Symbol} ELSE syms
\* The header holds a declaration and no definition or use: including it adds
\* no external reference to the object file.
IncludeRefs(m, syms) == syms

\* The names visible to the code after pc: the compiled interface.
Interface == {decls[i] : i \in 1..Len(decls)}
Declared == Symbol \in Interface
DeclCount == Cardinality({i \in 1..Len(decls) : decls[i] = Symbol})

----------------------------------------------------------------------------
\* The build.

Init ==
    /\ platform \in Platforms
    /\ runtimeExports \in BOOLEAN
    /\ tu \in TranslationUnits
    /\ pc = 1
    /\ macros = Predefined(platform)
    /\ decls = <<>>
    /\ undefinedSyms = {}
    /\ diagnostics = {}
    /\ phase = "translating"
    /\ error = "none"

AtLine(kind) == phase = "translating" /\ pc <= Len(tu) /\ tu[pc] = kind

\* #include "kmp_process_sys.h"
Include ==
    /\ AtLine("include")
    /\ macros' = IncludeMacros(macros)
    /\ decls' = IncludeDecls(macros, decls)
    /\ undefinedSyms' = IncludeRefs(macros, undefinedSyms)
    /\ pc' = pc + 1
    /\ UNCHANGED <<platform, runtimeExports, tu, diagnostics, phase, error>>

\* #define __ANDROID__ in the translation unit (or a header read before).
DefinePlatform ==
    /\ AtLine("define")
    /\ macros' = macros \cup {PlatformMacro}
    /\ pc' = pc + 1
    /\ UNCHANGED <<platform, runtimeExports, tu, decls, undefinedSyms,
                   diagnostics, phase, error>>

\* #undef __ANDROID__
UndefPlatform ==
    /\ AtLine("undef")
    /\ macros' = macros \ {PlatformMacro}
    /\ pc' = pc + 1
    /\ UNCHANGED <<platform, runtimeExports, tu, decls, undefinedSyms,
                   diagnostics, phase, error>>

\* A use of __SYS_pipe2 at pc: the name must have been declared; the header
\* only declares it, so the object file refers to it as an external symbol.
UseSymbol ==
    IF Declared
    THEN /\ undefinedSyms' = undefinedSyms \cup {Symbol}
         /\ UNCHANGED diagnostics
    ELSE /\ diagnostics' = diagnostics \cup {"undeclared_identifier"}
         /\ UNCHANGED undefinedSyms

\* __SYS_pipe2();
Call ==
    /\ AtLine("call")
    /\ UseSymbol
    /\ pc' = pc + 1
    /\ UNCHANGED <<platform, runtimeExports, tu, macros, decls, phase, error>>

\* The call wrapped in the guard the header uses.
GuardedCall ==
    /\ AtLine("guarded_call")
    /\ IF PlatformMacro \in macros
       THEN UseSymbol
       ELSE UNCHANGED <<undefinedSyms, diagnostics>>
    /\ pc' = pc + 1
    /\ UNCHANGED <<platform, runtimeExports, tu, macros, decls, phase, error>>

\* End of the translation unit: an object file, or the compile error.
Compile ==
    /\ phase = "translating"
    /\ pc = Len(tu) + 1
    /\ IF diagnostics = {}
       THEN phase' = "compiled" /\ error' = "none"
       ELSE phase' = "compile_failed" /\ error' = "undeclared_identifier"
    /\ UNCHANGED <<platform, runtimeExports, tu, pc, macros, decls,
                   undefinedSyms, diagnostics>>

RuntimeSymbols == IF runtimeExports THEN {Symbol} ELSE {}

\* Every external symbol of the object file is exported by the runtime.
Resolved(syms) == syms \subseteq RuntimeSymbols

\* Link the object file against the platform runtime.
Link ==
    /\ phase = "compiled"
    /\ IF Resolved(undefinedSyms)
       THEN phase' = "linked" /\ error' = "none"
       ELSE phase' = "link_failed" /\ error' = "unresolved_symbol"
    /\ UNCHANGED <<platform, runtimeExports, tu, pc, macros, decls,
                   undefinedSyms, diagnostics>>

Next ==
    \/ Include
    \/ DefinePlatform
    \/ UndefPlatform
    \/ Call
    \/ GuardedCall
    \/ Compile
    \/ Link

Spec == Init /\ [][Next]_vars

----------------------------------------------------------------------------
\* What the translation unit has done so far, read off tu and pc.

Processed == 1..(pc - 1)
IncludesDone == {k \in Processed : tu[k] = "include"}
Inclusions == Cardinality(IncludesDone)
FirstInclude == CHOOSE k \in IncludesDone : \A j \in IncludesDone : k <= j

\* Is __ANDROID__ defined just before line k is read, by the toolchain or by
\* the #define / #undef lines above line k.
RECURSIVE AndroidBefore(_)
AndroidBefore(k) ==
    IF k = 1 THEN PlatformMacro \in Predefined(platform)
    ELSE IF tu[k - 1] = "define" THEN TRUE
    ELSE IF tu[k - 1] = "undef" THEN FALSE
    ELSE AndroidBefore(k - 1)

\* __ANDROID__ has been defined (not defined) at every point so far.
AlwaysAndroid == \A k \in 1..pc : AndroidBefore(k)
NeverAndroid == \A k \in 1..pc : ~AndroidBefore(k)
AndroidAtFirstInclude == Inclusions >= 1 /\ AndroidBefore(FirstInclude)

\* The lines so far that use __SYS_pipe2 once preprocessed.
ActiveCalls ==
    {k \in Processed :
        tu[k] = "call" \/ (tu[k] = "guarded_call" /\ AndroidBefore(k))}

Terminal == phase \in {"compile_failed", "linked", "link_failed"}
Failed == phase \in {"compile_failed", "link_failed"}

\* The declarations the header holds for each platform, and the platforms
\* whose declarations the translation unit sees.
HeaderDeclarations(p) == IF p = "android" THEN {Symbol} ELSE {}
VisiblePlatforms ==
    {p \in Platforms :
        HeaderDeclarations(p) # {} /\ HeaderDeclarations(p) \subseteq Interface}

----------------------------------------------------------------------------
\* C1: include-guard idempotence.  In a compilation with __ANDROID__ defined,
\* after any number n >= 1 of inclusions the declarations and the macros are
\* those that exactly one inclusion leaves: __SYS_pipe2 is declared once.
C1_IncludeIdempotent ==
    (AlwaysAndroid /\ Inclusions >= 1) =>
        /\ decls = IncludeDecls(Predefined("android"), <<>>)
        /\ macros = IncludeMacros(Predefined("android"))
        /\ DeclCount = 1

C1_Witness ==
    AlwaysAndroid /\ Inclusions >= 2 /\ DeclCount = 1 /\ phase = "linked"

\* C2: guard exclusivity.  In a compilation where __ANDROID__ is never
\* defined, __SYS_pipe2 is never declared, whatever the number of inclusions,
\* and is absent from the compiled interface.
C2_GuardExclusive ==
    NeverAndroid => (DeclCount = 0 /\ Symbol \notin Interface)

C2_Witness ==
    NeverAndroid /\ Inclusions >= 2 /\ ~Declared /\ phase = "linked"

\* C3 as stated: after any inclusion read while __ANDROID__ is defined, the
\* declaration of __SYS_pipe2 is visible.
C3_Original ==
    (\E k \in IncludesDone : AndroidBefore(k)) => Declared

\* C3 as amended: when the FIRST inclusion is read while __ANDROID__ is
\* defined, the declaration is visible from then on, and the calls placed
\* after that inclusion compile.
C3_VisibleAfterFirstInclude ==
    AndroidAtFirstInclude =>
        /\ Declared
        /\ (\A j \in ActiveCalls : j > FirstInclude) =>
               (diagnostics = {} /\ phase # "compile_failed")

C3_Witness ==
    /\ AndroidAtFirstInclude
    /\ \E j \in ActiveCalls : j > FirstInclude
    /\ \A j \in ActiveCalls : j > FirstInclude
    /\ phase = "compiled"

\* C4 as stated: a translation unit that has an inclusion read while
\* __ANDROID__ is defined, and uses __SYS_pipe2 after it, links when the
\* runtime exports the symbol.
C4_Original ==
    ( /\ Terminal
      /\ ActiveCalls # {}
      /\ \E k \in IncludesDone :
            AndroidBefore(k) /\ \A j \in ActiveCalls : j > k
      /\ runtimeExports )
    => phase = "linked"

\* C4 as amended: a translation unit whose FIRST inclusion is read while
\* __ANDROID__ is defined, and that uses __SYS_pipe2 after it, links when the
\* runtime exports the symbol and fails at link time, unresolved symbol, when
\* it does not.
C4_LinkOutcome ==
    ( /\ Terminal
      /\ AndroidAtFirstInclude
      /\ ActiveCalls # {}
      /\ \A j \in ActiveCalls : j > FirstInclude )
    => IF runtimeExports
       THEN phase = "linked" /\ error = "none"
       ELSE phase = "link_failed" /\ error = "unresolved_symbol"

C4_Witness ==
    /\ AndroidAtFirstInclude
    /\ ActiveCalls # {}
    /\ \A j \in ActiveCalls : j > FirstInclude
    /\ ~runtimeExports
    /\ phase = "link_failed"

\* C5: where __ANDROID__ is never defined, a translation unit with a call
\* outside the guard fails to compile, and one whose calls are all inside the
\* guard compiles (and, nothing being referenced, links).
C5_UnguardedUseFails ==
    (Terminal /\ NeverAndroid) =>
        /\ (\E k \in Processed : tu[k] = "call") =>
               (phase = "compile_failed" /\ error = "undeclared_identifier")
        /\ (\A k \in Processed : tu[k] # "call") => phase = "linked"

C5_Witness ==
    /\ NeverAndroid
    /\ Inclusions >= 1
    /\ \E k \in Processed : tu[k] = "call" /\ k > FirstInclude
    /\ phase = "compile_failed"

\* C6: where __ANDROID__ is never defined, a translation unit that includes
\* the header and never mentions __SYS_pipe2 compiles and links, whether or
\* not the runtime exports the symbol.
C6_NoSymbolNeeded ==
    ( /\ Terminal
      /\ NeverAndroid
      /\ Inclusions >= 1
      /\ \A k \in Processed : tu[k] \notin {"call", "guarded_call"} )
    => (phase = "linked" /\ error = "none" /\ undefinedSyms = {})

C6_Witness ==
    /\ NeverAndroid
    /\ Inclusions >= 1
    /\ \A k \in Processed : tu[k] \notin {"call", "guarded_call"}
    /\ ~runtimeExports
    /\ phase = "linked"

\* C7 as stated: in every build that includes the header, exactly one
\* platform's declarations are visible.
C7_Original ==
    Inclusions >= 1 => Cardinality(VisiblePlatforms) = 1

\* C7 as amended: in every build that includes the header, at most one
\* platform's declarations are visible: Android's when __ANDROID__ is defined
\* at the first inclusion, and no platform's otherwise.
C7_AtMostOnePlatform ==
    Inclusions >= 1 =>
        VisiblePlatforms = (IF AndroidBefore(FirstInclude) THEN {"android"} ELSE {})

C7_Witness ==
    /\ Inclusions >= 1
    /\ platform = "linux"
    /\ NeverAndroid
    /\ VisiblePlatforms = {}
    /\ phase = "linked"

\* C8 as stated: the only failure of a build that includes the header is the
\* unresolved symbol at link time (here for the builds whose uses of
\* __SYS_pipe2 all come after the first inclusion).
C8_Original ==
    ( /\ Inclusions >= 1
      /\ \A j \in ActiveCalls : j > FirstInclude
      /\ Failed )
    => (phase = "link_failed" /\ error = "unresolved_symbol")

\* C8 as amended: a build fails in one of two ways and no other: an
\* undeclared identifier at compile time, exactly when __SYS_pipe2 is used
\* where the header has not declared it, or an unresolved symbol at link time,
\* exactly when every use is declared and the runtime does not export the
\* symbol; a failed build stays failed, with the same error.
UndeclaredUse ==
    \E j \in ActiveCalls : ~(AndroidAtFirstInclude /\ FirstInclude < j)
FailureClassOK ==
    /\ phase = "compile_failed" <=> UndeclaredUse
    /\ phase = "compile_failed" => error = "undeclared_identifier"
    /\ phase = "link_failed" <=>
           (~UndeclaredUse /\ ActiveCalls # {} /\ ~runtimeExports)
    /\ phase = "link_failed" => error = "unresolved_symbol"
    /\ phase = "linked" => error = "none"
C8_FailureClasses ==
    [][ /\ phase' \in {"translating", "compiled", "compile_failed", "linked",
                       "link_failed"}
        /\ error' \in {"none", "undeclared_identifier", "unresolved_symbol"}
        /\ Terminal' => FailureClassOK'
        /\ Failed => (phase' = phase /\ error' = error) ]_vars

C8_Witness ==
    /\ Inclusions >= 1
    /\ \A j \in ActiveCalls : j > FirstInclude
    /\ phase = "compile_failed"
    /\ runtimeExports

\* C9: whether __SYS_pipe2 is declared is fixed by whether __ANDROID__ was
\* defined at the first inclusion; defining or undefining it afterwards, and
\* including again, changes nothing.
C9_FirstInclusionDecides ==
    Inclusions >= 1 => (Declared <=> AndroidBefore(FirstInclude))

C9_Witness ==
    /\ Inclusions >= 2
    /\ ~AndroidBefore(FirstInclude)
    /\ \E k \in IncludesDone : k > FirstInclude /\ AndroidBefore(k)
    /\ ~Declared

\* C10: frame of an inclusion.  The first inclusion defines KMP_PROCESS_SYS_H
\* and changes no other macro, never touches __ANDROID__, and adds at most
\* the declaration of __SYS_pipe2; a later inclusion changes neither the
\* macros nor the declarations; no inclusion changes anything else.
C10_IncludeFrame ==
    [][ (AtLine("include") /\ pc' = pc + 1) =>
          /\ (PlatformMacro \in macros') <=> (PlatformMacro \in macros)
          /\ Inclusions = 0 =>
                /\ macros' = macros \cup {GuardMacro}
                /\ decls' \in {decls, Append(decls, Symbol)}
          /\ Inclusions >= 1 => (macros' = macros /\ decls' = decls)
          /\ UNCHANGED <<platform, runtimeExports, tu, undefinedSyms,
                         diagnostics, phase, error>> ]_vars

C10_Witness ==
    /\ Inclusions >= 2
    /\ platform = "apple"
    /\ NeverAndroid
    /\ macros = {GuardMacro}
    /\ decls = <<>>

====
